---- MODULE Spec2Model ----
(***************************************************************************)
(* The "virtual" light protocol of diyHue-mod                              *)
(* (BridgeEmulator/lights/protocols/virtual.py): set_light forwards a      *)
(* state change to the linked child lights, batched per device address;    *)
(* get_light_state reads the devices back, refreshes the children's        *)
(* cached state and folds it into the virtual parent's state.              *)
(*                                                                         *)
(* Python dicts are modelled as functions whose DOMAIN is the set of keys  *)
(* present, so "k in d" is k \in DOMAIN d and a missing key stays missing. *)
(***************************************************************************)
EXTENDS Integers, Sequences, FiniteSets, TLC

\* ------------------------------------------------------------------ bounds
\* Number of set_light / get_light_state calls made in one behaviour.
MaxCalls == 2

\* ------------------------------------------------------- values and dicts
EmptyDict == [k \in {} |-> TRUE]

\* A JSON null (or any other non-number) found where a brightness is expected.
Null == -1

Put(d, k, v) == [x \in DOMAIN d \cup {k} |-> IF x = k THEN v ELSE d[x]]

Restrict(d, keys) == [k \in DOMAIN d \cap keys |-> d[k]]

\* d.get(k) used as a condition: a missing key is falsy.
Truthy(d, k) == k \in DOMAIN d /\ d[k] = TRUE

\* str(light_nr): the channel key of the device's JSON.
Str(n) == CASE n = 1 -> "1" [] n = 2 -> "2" [] n = 3 -> "3" [] OTHER -> "0"

\* The fields set_light forwards, and those get_light_state copies back.
WriteKeys == {"on", "bri", "hue", "sat", "xy", "ct", "colormode"}

ReadKeys == {"on", "bri", "hue", "sat", "xy", "ct", "colormode", "reachable"}

\* ------------------------------------------------------------ the registry
\* conf["lights"]: the identifiers the registry holds.  Ghost is listed by a
\* virtual light but is not in the registry.
Ids == {"c1", "c2", "c3"}

Ghost == "ghost"

Addrs == {"A", "B"}

\* protocol_cfg.get("ip") / .get("light_nr") of a child; "" and 0 stand for
\* a missing (or falsy) address / channel index.
NoIp == ""

Cfg(ip, nr) == [ip |-> ip, light_nr |-> nr]

\* Three registries: two channels of A and one of B; one light on each device
\* and one without a device; one light on A, one with an address but no
\* channel index, one with a channel index but no address.
TwoOnA == [c1 |-> Cfg("A", 1), c2 |-> Cfg("A", 2), c3 |-> Cfg("B", 1)]

OneEach == [c1 |-> Cfg("A", 1), c2 |-> Cfg("B", 1), c3 |-> Cfg(NoIp, 0)]

Partial == [c1 |-> Cfg("A", 2), c2 |-> Cfg("A", 0), c3 |-> Cfg(NoIp, 1)]

\* light.protocol_cfg of the virtual light: NoKey when "linked_lights" is
\* not configured, else the list.
NoKey == [configured |-> FALSE, ids |-> <<>>]

Linked(s) == [configured |-> TRUE, ids |-> s]

\* The configurations explored: a registry and the virtual light's list.
Config(r, l) == [cfg |-> r, linked |-> l]

Configs ==
    { Config(TwoOnA, NoKey),
      Config(TwoOnA, Linked(<<>>)),
      Config(TwoOnA, Linked(<<Ghost>>)),
      Config(TwoOnA, Linked(<<"c1">>)),
      Config(TwoOnA, Linked(<<"c1", "c2">>)),
      Config(TwoOnA, Linked(<<"c2", "c3">>)),
      Config(TwoOnA, Linked(<<"c3", "c1">>)),
      Config(TwoOnA, Linked(<<"c1", Ghost, "c3">>)),
      Config(OneEach, Linked(<<"c3">>)),
      Config(OneEach, Linked(<<"c1", "c3">>)),
      Config(OneEach, Linked(<<"c1", "c2", "c3">>)),
      Config(OneEach, Linked(<<"c3", Ghost, "c2">>)),
      Config(Partial, Linked(<<"c2", "c3">>)),
      Config(Partial, Linked(<<"c1", "c2", "c3">>)) }

\* ------------------------------------------------------------- the devices
\* What a device serves under "lights" for one channel: a dict of fields
\* (effect is one that get_light_state does not recognize), or something that
\* is no dict (Malformed).  A channel may also be missing.
Malformed == [malformed |-> TRUE]

IsMalformed(e) == "malformed" \in DOMAIN e

Entries ==
    { [on |-> TRUE, bri |-> 200, reachable |-> TRUE, hue |-> 2],
      [on |-> FALSE, bri |-> 54, reachable |-> FALSE],
      [on |-> TRUE, bri |-> 55, effect |-> 1],
      [on |-> FALSE, bri |-> Null],
      Malformed }

\* The "lights" object of the device at an address: channel key -> entry.
Channels == [A |-> {"1", "2"}, B |-> {"1"}]

LightsOf(a) == UNION { [S -> Entries] : S \in SUBSET Channels[a] }

\* Cached states the lights may hold when the behaviour starts; the last one
\* only for a light no device refreshes.
InitStates ==
    { EmptyDict,
      [on |-> TRUE, bri |-> 200, reachable |-> TRUE, hue |-> 1, effect |-> 0] }

StaleStates == InitStates \cup { [on |-> FALSE, bri |-> 100, reachable |-> FALSE] }

ParentStates ==
    { [on |-> FALSE, bri |-> 1, reachable |-> TRUE, hue |-> 9],
      [on |-> TRUE, bri |-> 77, reachable |-> FALSE, hue |-> 9] }

\* ------------------------------------------------------------------- state
VARIABLES
    linked,     \* light.protocol_cfg of the virtual light (NoKey or Linked(ids))
    cfg,        \* protocol_cfg of every light of the registry
    device,     \* per address, the "lights" object the device serves
    pstate,     \* light.state of the virtual light
    cstate,     \* child.state of every light of the registry
    spc,        \* set_light: "idle", "collect", "send"
    sdata,      \* set_light: its data argument
    sbatch,     \* set_light: batch_updates, in insertion order
    sidx,       \* set_light: position of the STEP B loop
    puts,       \* requests.put calls of the current (or last) set_light
    sres,       \* set_light is "running", has "returned", or "none" of the two
                \* since another call began
    spre,       \* light.state when the current (or last) set_light was called
    gpc,        \* get_light_state: "idle", "read"
    gmap,       \* get_light_state: ip_map, in insertion order
    gidx,       \* get_light_state: position of the GET loop
    gets,       \* requests.get calls of the current (or last) get_light_state
    gres,       \* what the last get_light_state returned or raised; kind "none"
                \* while it runs and once another call began
    gpre,       \* light.state when the current (or last) get_light_state was called
    cpre,       \* the children's states at that moment
    prev,       \* the get_light_state call before the current one
    direct,     \* direct state-setter calls made on children
    setSince,   \* a set_light was called since the last get_light_state returned
    ncalls      \* calls made so far

cfgVars == <<linked, cfg, device>>

setVars == <<spc, sdata, sbatch, sidx, puts, sres, spre, direct>>

getVars == <<gpc, gmap, gidx, gets, gres, gpre, cpre, prev>>

vars == <<linked, cfg, device, pstate, cstate, spc, sdata, sbatch, sidx, puts,
          sres, spre, direct, gpc, gmap, gidx, gets, gres, gpre, cpre, prev, setSince,
          ncalls>>

\* ------------------------------------------------------- child resolution
\* conf["lights"].get(child_id) followed by "if not child: continue".
InRegistry(id) == id \in DOMAIN cfg

\* "if not ip or not light_nr: continue"
Batchable(id) == cfg[id].ip # NoIp /\ cfg[id].light_nr # 0

\* Mutant: the address is never found, so every child opens its own group.
IndexOfNever(m, ip) == 0

\* Position of address ip in an insertion-ordered dict, 0 when it is no key.
IndexOf(m, ip) ==
    IF \E i \in 1..Len(m) : m[i].ip = ip
    THEN CHOOSE i \in 1..Len(m) : m[i].ip = ip
    ELSE 0

\* -------------------------------------------------------- get_light_state
\* ip_map: the batchable children grouped by address, each group a list of
\* (child, light_nr) pairs in the order of linked_lights.
RECURSIVE IpMapFrom(_, _, _)
IpMapFrom(ids, i, m) ==
    IF i > Len(ids) THEN m
    ELSE IF ~InRegistry(ids[i]) THEN IpMapFrom(ids, i + 1, m)
    ELSE IF ~Batchable(ids[i]) THEN IpMapFrom(ids, i + 1, m)
    ELSE LET ip == cfg[ids[i]].ip
             pair == [id |-> ids[i], ln |-> cfg[ids[i]].light_nr]
             j == IndexOf(m, ip)
         IN  IF j = 0
             THEN IpMapFrom(ids, i + 1, Append(m, [ip |-> ip, pairs |-> <<pair>>]))
             ELSE IpMapFrom(ids, i + 1, [m EXCEPT ![j].pairs = Append(@, pair)])

IpMap(ids) == IpMapFrom(ids, 1, <<>>)

\* lights_data.get(str(ln), {})
SubDict(lights, ln) == IF Str(ln) \in DOMAIN lights THEN lights[Str(ln)] ELSE EmptyDict

\* The copy of the recognized keys of sub_dict into child_obj.state, and
\* reachable = True when sub_dict has no "reachable".
\* Mutant: every key of the entry is copied, recognised or not.
UpdateChildAnyKey(st, sub) ==
    [k \in DOMAIN st \cup DOMAIN sub \cup {"reachable"} |->
        IF k \in DOMAIN sub THEN sub[k]
        ELSE IF k = "reachable" THEN TRUE
        ELSE st[k]]

UpdateChild(st, sub) ==
    [k \in DOMAIN st \cup (DOMAIN sub \cap ReadKeys) \cup {"reachable"} |->
        IF k \in DOMAIN sub \cap ReadKeys THEN sub[k]
        ELSE IF k = "reachable" THEN TRUE
        ELSE st[k]]

\* The loop over child_pairs inside the try: it stops at the first pair whose
\* sub_dict is no container ("key in sub_dict" raises).
RECURSIVE Distribute(_, _, _, _)
Distribute(cs, pairs, lights, i) ==
    IF i > Len(pairs) THEN [cs |-> cs, raised |-> FALSE]
    ELSE LET sub == SubDict(lights, pairs[i].ln) IN
         IF IsMalformed(sub) THEN [cs |-> cs, raised |-> TRUE]
         ELSE Distribute([cs EXCEPT ![pairs[i].id] = UpdateChild(@, sub)],
                         pairs, lights, i + 1)

\* The except branch: every child of the group becomes unreachable.
MarkUnreachable(cs, pairs) ==
    [c \in DOMAIN cs |->
        IF \E i \in 1..Len(pairs) : pairs[i].id = c
        THEN Put(cs[c], "reachable", FALSE)
        ELSE cs[c]]

\* One iteration of the GET loop; ok is FALSE when requests.get times out,
\* raise_for_status raises or the body is no JSON object.
ReadEndpoint(cs, group, ok) ==
    IF ~ok THEN MarkUnreachable(cs, group.pairs)
    ELSE LET r == Distribute(cs, group.pairs, device[group.ip], 1) IN
         IF r.raised THEN MarkUnreachable(r.cs, group.pairs) ELSE r.cs

\* Mutant: the loop ends at the first identifier the registry lacks.
ResolvedBreak(ids) ==
    LET bad == {i \in 1..Len(ids) : ~InRegistry(ids[i])} IN
    IF bad = {} THEN ids
    ELSE SubSeq(ids, 1, (CHOOSE i \in bad : \A j \in bad : i <= j) - 1)

\* The children the aggregation loop visits, in order.
Resolved(ids) == SelectSeq(ids, InRegistry)

OnCount(cs, r) == Cardinality({i \in 1..Len(r) : Truthy(cs[r[i]], "on")})

ReachableCount(cs, r) == Cardinality({i \in 1..Len(r) : Truthy(cs[r[i]], "reachable")})

RECURSIVE TotalBriFrom(_, _, _)
TotalBriFrom(cs, r, i) ==
    IF i > Len(r) THEN 0
    ELSE (IF "bri" \in DOMAIN cs[r[i]] THEN cs[r[i]].bri ELSE 0)
         + TotalBriFrom(cs, r, i + 1)

TotalBri(cs, r) == TotalBriFrom(cs, r, 1)

\* "total_bri += child_light.state["bri"]" raises TypeError on a non-number.
BriRaises(cs, r) ==
    \E i \in 1..Len(r) : "bri" \in DOMAIN cs[r[i]] /\ cs[r[i]].bri = Null

\* Mutant: only a reachable child that is on turns the parent on.
ParentOnIfReachable(cs, r) ==
    \E i \in 1..Len(r) : Truthy(cs[r[i]], "on") /\ Truthy(cs[r[i]], "reachable")

ParentOn(cs, r) == OnCount(cs, r) > 0

\* int(total_bri / child_count)
ParentBri(cs, r) == TotalBri(cs, r) \div Len(r)

\* Mutant: the parent is reachable only when every child is.
ParentReachableAll(cs, r) == ReachableCount(cs, r) = Len(r)

ParentReachable(cs, r) == ReachableCount(cs, r) > 0

\* Mutant: the write-back is not guarded by child_count > 0.
AggregateUnguarded(ps, cs, ids) ==
    LET r == Resolved(ids) IN
    IF BriRaises(cs, r) THEN [raised |-> TRUE, state |-> ps]
    ELSE [raised |-> FALSE,
          state |-> Put(Put(Put(ps, "on", ParentOn(cs, r)),
                                "bri", IF Len(r) > 0 THEN ParentBri(cs, r) ELSE 0),
                                "reachable", ParentReachable(cs, r))]

\* Mutant: the parent's own brightness is counted as one more child's.
AggregateWithParent(ps, cs, ids) ==
    LET r == Resolved(ids) IN
    IF BriRaises(cs, r) THEN [raised |-> TRUE, state |-> ps]
    ELSE IF Len(r) > 0
    THEN [raised |-> FALSE,
          state |-> Put(Put(Put(ps, "on", ParentOn(cs, r)),
                                "bri", (ps.bri + TotalBri(cs, r)) \div (Len(r) + 1)),
                                "reachable", ParentReachable(cs, r))]
    ELSE [raised |-> FALSE, state |-> ps]

\* Mutant: the write-back replaces light.state by a fresh dict.
AggregateFresh(ps, cs, ids) ==
    LET r == Resolved(ids) IN
    IF BriRaises(cs, r) THEN [raised |-> TRUE, state |-> ps]
    ELSE IF Len(r) > 0
    THEN [raised |-> FALSE,
          state |-> [on |-> ParentOn(cs, r), bri |-> ParentBri(cs, r),
                     reachable |-> ParentReachable(cs, r)]]
    ELSE [raised |-> FALSE, state |-> ps]

\* The aggregation and the write-back into light.state.
Aggregate(ps, cs, ids) ==
    LET r == Resolved(ids) IN
    IF BriRaises(cs, r) THEN [raised |-> TRUE, state |-> ps]
    ELSE IF Len(r) > 0
    THEN [raised |-> FALSE,
          state |-> Put(Put(Put(ps, "on", ParentOn(cs, r)),
                                "bri", ParentBri(cs, r)),
                                "reachable", ParentReachable(cs, r))]
    ELSE [raised |-> FALSE, state |-> ps]

NoResult == [kind |-> "none", state |-> EmptyDict]

NoPrev == [valid |-> FALSE, gets |-> <<>>, res |-> NoResult]

\* The call, up to the GET loop.  Without "linked_lights" it returns
\* light.state at once.
GetBegin ==
    /\ gpc = "idle" /\ spc = "idle" /\ ncalls < MaxCalls
    /\ ncalls' = ncalls + 1
    /\ gpre' = pstate /\ cpre' = cstate
    /\ prev' = IF gres.kind # "none" /\ ~setSince
               THEN [valid |-> TRUE, gets |-> gets, res |-> gres]
               ELSE NoPrev
    /\ gets' = <<>>
    /\ gidx' = 1
    /\ IF linked.configured
       THEN /\ gmap' = IpMap(linked.ids)
            /\ gpc' = "read"
            /\ gres' = NoResult
            /\ UNCHANGED setSince
       ELSE /\ gmap' = <<>>
            /\ gpc' = "idle"
            /\ gres' = [kind |-> "state", state |-> pstate]
            /\ setSince' = FALSE
    /\ sres' = "none"
    /\ UNCHANGED <<cfgVars, pstate, cstate, spc, sdata, sbatch, sidx, puts,
                   spre, direct>>

\* One GET and the handling of its response.
GetRead ==
    /\ gpc = "read" /\ gidx <= Len(gmap)
    /\ \E ok \in BOOLEAN :
        /\ cstate' = ReadEndpoint(cstate, gmap[gidx], ok)
        /\ gets' = Append(gets, [ip |-> gmap[gidx].ip, ok |-> ok])
    /\ gidx' = gidx + 1
    /\ UNCHANGED <<cfgVars, setVars, pstate, gpc, gmap, gres, gpre, cpre, prev,
                   setSince, ncalls>>

\* The aggregation, and the return (or the exception that leaves the call).
GetAggregate ==
    /\ gpc = "read" /\ gidx > Len(gmap)
    /\ LET a == Aggregate(pstate, cstate, linked.ids) IN
        /\ pstate' = a.state
        /\ gres' = IF a.raised THEN [kind |-> "raise", state |-> EmptyDict]
                   ELSE [kind |-> "state", state |-> a.state]
    /\ gpc' = "idle"
    /\ setSince' = FALSE
    /\ UNCHANGED <<cfgVars, setVars, cstate, gmap, gidx, gets, gpre, cpre, prev,
                   ncalls>>

\* --------------------------------------------------------------- set_light
\* The data argument of set_light: a state change as the bridge passes it.
Deltas ==
    { [on |-> TRUE, bri |-> 100],
      [hue |-> 5, transitiontime |-> 4] }

\* Mutant: the whole of data is forwarded.
SubLightDataWhole(data) == data

\* sub_light_data: the forwarded fields of data.
SubLightData(data) == Restrict(data, WriteKeys)

\* STEP A: batch_updates, address -> {"lights": {light_nr: sub_light_data}},
\* in insertion order.
RECURSIVE BatchFrom(_, _, _, _)
BatchFrom(ids, data, i, b) ==
    IF i > Len(ids) THEN b
    ELSE IF ~InRegistry(ids[i]) THEN BatchFrom(ids, data, i + 1, b)
    ELSE IF ~Batchable(ids[i]) THEN BatchFrom(ids, data, i + 1, b)
    ELSE LET ip == cfg[ids[i]].ip
             nr == cfg[ids[i]].light_nr
             j == IndexOf(b, ip)
         IN  IF j = 0
             THEN BatchFrom(ids, data, i + 1,
                      Append(b, [ip |-> ip,
                                 lights |-> Put(EmptyDict, nr, SubLightData(data))]))
             ELSE BatchFrom(ids, data, i + 1,
                      [b EXCEPT ![j].lights = Put(@, nr, SubLightData(data))])

BatchUpdates(ids, data) == BatchFrom(ids, data, 1, <<>>)

\* json=data_to_send: the integer channel keys are written as strings.
JsonLights(l) ==
    [k \in {Str(n) : n \in DOMAIN l} |-> l[CHOOSE n \in DOMAIN l : Str(n) = k]]

\* Mutant: the parent is not marked unreachable at the start.
ResetReachableSkipped(ps) == ps

\* light.state["reachable"] = False, before STEP A.
ResetReachable(ps) == Put(ps, "reachable", FALSE)

\* Mutant: the parent is marked reachable after a PUT that raised, too.
ReachableAfterPutAlways(ps, ok) == Put(ps, "reachable", TRUE)

\* light.state["reachable"] = True after a PUT that did not raise; the except
\* branch only logs.
ReachableAfterPut(ps, ok) == IF ok THEN Put(ps, "reachable", TRUE) ELSE ps

\* Mutant: the try encloses the whole loop, so a failed PUT ends it.
AfterPutAbort(i, ok, n) == IF ok THEN i + 1 ELSE n + 1

\* The STEP B loop goes on to the next address whether the PUT raised or not.
AfterPut(i, ok, n) == i + 1

\* The call, up to STEP A.  Without "linked_lights" it returns at once.
SetBegin(data) ==
    /\ spc = "idle" /\ gpc = "idle" /\ ncalls < MaxCalls
    /\ ncalls' = ncalls + 1
    /\ sdata' = data
    /\ spre' = pstate
    /\ puts' = <<>>
    /\ sbatch' = <<>>
    /\ sidx' = 1
    /\ setSince' = TRUE
    /\ IF linked.configured
       THEN /\ pstate' = ResetReachable(pstate)
            /\ spc' = "collect"
            /\ sres' = "running"
       ELSE /\ pstate' = pstate
            /\ spc' = "idle"
            /\ sres' = "returned"
    /\ gres' = NoResult
    /\ UNCHANGED <<cfgVars, cstate, direct, gpc, gmap, gidx, gets, gpre, cpre,
                   prev>>

\* STEP A.
SetCollect ==
    /\ spc = "collect"
    /\ sbatch' = BatchUpdates(linked.ids, sdata)
    /\ spc' = "send"
    /\ UNCHANGED <<cfgVars, getVars, pstate, cstate, sdata, sidx, puts, sres,
                   spre, direct, setSince, ncalls>>

\* One iteration of STEP B; ok is FALSE when requests.put times out or
\* raise_for_status raises.
SetPut ==
    /\ spc = "send" /\ sidx <= Len(sbatch)
    /\ \E ok \in BOOLEAN :
        /\ puts' = Append(puts, [ip |-> sbatch[sidx].ip,
                                 lights |-> JsonLights(sbatch[sidx].lights),
                                 ok |-> ok])
        /\ pstate' = ReachableAfterPut(pstate, ok)
        /\ sidx' = AfterPut(sidx, ok, Len(sbatch))
    /\ UNCHANGED <<cfgVars, getVars, cstate, spc, sdata, sbatch, sres, spre,
                   direct, setSince, ncalls>>

SetReturn ==
    /\ spc = "send" /\ sidx > Len(sbatch)
    /\ spc' = "idle"
    /\ sres' = "returned"
    /\ UNCHANGED <<cfgVars, getVars, pstate, cstate, sdata, sbatch, sidx, puts,
                   spre, direct, setSince, ncalls>>

\* ----------------------------------------------------------- specification
\* The channels of address a that a linked, batchable child reads.
UsedChannels(r, l, a) ==
    { Str(r[l.ids[i]].light_nr) :
        i \in { j \in 1..Len(l.ids) :
                  /\ l.ids[j] \in DOMAIN r
                  /\ r[l.ids[j]].ip = a
                  /\ r[l.ids[j]].light_nr # 0 } }

IsListed(l, c) == \E i \in 1..Len(l.ids) : l.ids[i] = c

Init ==
    /\ \E c \in Configs : cfg = c.cfg /\ linked = c.linked
    /\ device \in [Addrs -> UNION {LightsOf(a) : a \in Addrs}]
    /\ \A a \in Addrs :
         /\ device[a] \in LightsOf(a)
         /\ DOMAIN device[a] \subseteq UsedChannels(cfg, linked, a)
    /\ pstate \in ParentStates
    /\ cstate \in [Ids -> StaleStates]
    /\ \A c \in Ids :
         /\ ~IsListed(linked, c) => cstate[c] = EmptyDict
         /\ (cfg[c].ip # NoIp /\ cfg[c].light_nr # 0) => cstate[c] \in InitStates
    /\ spc = "idle" /\ sdata = EmptyDict /\ sbatch = <<>> /\ sidx = 1
    /\ puts = <<>> /\ sres = "none" /\ spre = EmptyDict /\ direct = <<>>
    /\ gpc = "idle" /\ gmap = <<>> /\ gidx = 1 /\ gets = <<>>
    /\ gres = NoResult /\ gpre = EmptyDict /\ cpre = cstate /\ prev = NoPrev
    /\ setSince = FALSE
    /\ ncalls = 0

Next ==
    \/ \E data \in Deltas : SetBegin(data)
    \/ SetCollect
    \/ SetPut
    \/ SetReturn
    \/ GetBegin
    \/ GetRead
    \/ GetAggregate

Spec == Init /\ [][Next]_vars

\* ------------------------------------------- one set_light and one
\* get_light_state on the same light, running concurrently.  Each call is
\* entered once, whatever the position of the other; their later steps are
\* those of the sequential specification and interleave freely.  The
\* aggregation reads only the children's states, which set_light never
\* writes, so its reads and its write of reachable are one step.
ConcSetBegin(data) ==
    /\ spc = "idle" /\ sres = "none" /\ ncalls < MaxCalls
    /\ ncalls' = ncalls + 1
    /\ sdata' = data
    /\ spre' = pstate
    /\ puts' = <<>>
    /\ sbatch' = <<>>
    /\ sidx' = 1
    /\ setSince' = TRUE
    /\ IF linked.configured
       THEN /\ pstate' = ResetReachable(pstate)
            /\ spc' = "collect"
            /\ sres' = "running"
       ELSE /\ pstate' = pstate
            /\ spc' = "idle"
            /\ sres' = "returned"
    /\ UNCHANGED <<cfgVars, getVars, cstate, direct>>

ConcGetBegin ==
    /\ gpc = "idle" /\ gres.kind = "none" /\ ncalls < MaxCalls
    /\ ncalls' = ncalls + 1
    /\ gpre' = pstate /\ cpre' = cstate
    /\ gets' = <<>>
    /\ gidx' = 1
    /\ IF linked.configured
       THEN /\ gmap' = IpMap(linked.ids)
            /\ gpc' = "read"
            /\ gres' = NoResult
       ELSE /\ gmap' = <<>>
            /\ gpc' = "idle"
            /\ gres' = [kind |-> "state", state |-> pstate]
    /\ UNCHANGED <<cfgVars, setVars, pstate, cstate, prev, setSince>>

NextConc ==
    \/ \E data \in Deltas : ConcSetBegin(data)
    \/ SetCollect
    \/ SetPut
    \/ SetReturn
    \/ ConcGetBegin
    \/ GetRead
    \/ GetAggregate

SpecConc == Init /\ [][NextConc]_vars

\* ------------------------------------------------------------------ claims
\* The children linked_lights resolves to, and the addresses of those that
\* have both an address and a channel index.
ListedChildren == {c \in DOMAIN cfg : IsListed(linked, c)}

HasEndpoint(c) == cfg[c].ip # NoIp /\ cfg[c].light_nr # 0

BatchAddrs == {cfg[c].ip : c \in {d \in ListedChildren : HasEndpoint(d)}}

Count(reqs, a) == Cardinality({i \in 1..Len(reqs) : reqs[i].ip = a})

\* The last call was a get_light_state that returned a state / a set_light
\* that returned, and no call began since.
GetReturned == gres.kind = "state"

SetReturned == sres = "returned"

AnyPutOk == \E i \in 1..Len(puts) : puts[i].ok

\* C1: when get_light_state returns and linked_lights resolves to at least
\* one child, the parent's reachable is the OR of the children's reachable as
\* they stand then, whatever reads succeeded or failed.
C1_ReachableIsOrOfChildren ==
    (GetReturned /\ ListedChildren # {})
        => (Truthy(pstate, "reachable")
              <=> \E c \in ListedChildren : Truthy(cstate[c], "reachable"))

C1_Witness ==
    /\ GetReturned
    /\ Len(gets) = 2 /\ gets[1].ok # gets[2].ok
    /\ Truthy(pstate, "reachable")
    /\ \E c \in ListedChildren : ~Truthy(cstate[c], "reachable")

\* C2: the aggregated bri is the floor of the sum of bri over the resolved
\* children that have a bri, divided by the number of THOSE children.
WithBri == {c \in ListedChildren : "bri" \in DOMAIN cstate[c]}

RECURSIVE SumBriOf(_)
SumBriOf(S) ==
    IF S = {} THEN 0
    ELSE LET c == CHOOSE x \in S : TRUE IN cstate[c].bri + SumBriOf(S \ {c})

C2_BriAveragesOverChildrenWithBri ==
    (GetReturned /\ WithBri # {})
        => pstate.bri = SumBriOf(WithBri) \div Cardinality(WithBri)

\* C3: a resolved child that cannot be queried and whose cached state is
\* empty counts as {on: true, bri: 254, reachable: true}; a virtual light
\* whose only resolved child is such a child aggregates to those values.
C3_EmptyChildFallsBack ==
    (GetReturned /\ \E c \in ListedChildren :
                      /\ ListedChildren = {c}
                      /\ ~HasEndpoint(c)
                      /\ cstate[c] = EmptyDict)
        => (pstate.on = TRUE /\ pstate.bri = 254 /\ pstate.reachable = TRUE)

\* C4: one call sends exactly one PUT (set_light) or one GET
\* (get_light_state) per distinct address of the resolved children that have
\* an address and a channel index, however many children share the address
\* and whether or not the request succeeds.
C4_OneRequestPerAddress ==
    /\ \A a \in Addrs : Count(puts, a) <= 1 /\ Count(gets, a) <= 1
    /\ SetReturned =>
         \A a \in Addrs : Count(puts, a) = IF a \in BatchAddrs THEN 1 ELSE 0
    /\ gres.kind # "none" =>
         \A a \in Addrs : Count(gets, a) = IF a \in BatchAddrs THEN 1 ELSE 0

C4_Witness ==
    /\ SetReturned
    /\ cfg = TwoOnA /\ linked = Linked(<<"c1", "c2">>)
    /\ Len(puts) = 1 /\ ~puts[1].ok
    /\ DOMAIN puts[1].lights = {"1", "2"}

\* C5: with linked_lights absent or empty, get_light_state returns the
\* parent's prior state with every field unchanged, and set_light sends no
\* request and calls no driver.
NoChildrenListed == ~linked.configured \/ linked.ids = <<>>

C5_NoChildrenNoEffect ==
    /\ (GetReturned /\ NoChildrenListed)
          => (gres.state = gpre /\ pstate = gpre /\ gets = <<>>)
    /\ (SetReturned /\ NoChildrenListed)
          => (puts = <<>> /\ direct = <<>>)

C5_Witness ==
    /\ GetReturned
    /\ linked = Linked(<<>>)
    /\ Truthy(gpre, "reachable")
    /\ gres.state = gpre

\* C6: when the resolved children span two addresses and the PUT to one of
\* them fails, the PUT to the other is still sent, in either order, and if it
\* succeeds the parent is reachable when set_light returns.
C6_FailedPutDoesNotStopOthers ==
    (SetReturned /\ Cardinality(BatchAddrs) = 2
                 /\ \E i \in 1..Len(puts) : ~puts[i].ok)
        => /\ \A a \in BatchAddrs : Count(puts, a) = 1
           /\ AnyPutOk => Truthy(pstate, "reachable")

C6_Witness ==
    /\ SetReturned
    /\ Len(puts) = 2 /\ ~puts[1].ok /\ puts[2].ok
    /\ puts[1].ip = "B" /\ puts[2].ip = "A"
    /\ Truthy(pstate, "reachable")

\* C7: when set_light on a light with linked_lights returns, the parent is
\* reachable iff a child reported reachable on the direct path or a PUT of
\* this call succeeded; so it is unreachable when every PUT failed or none
\* was sent, whatever it was before.
C7_ReachableIffSomethingSucceeded ==
    (SetReturned /\ linked.configured)
        => (Truthy(pstate, "reachable")
              <=> (\/ \E i \in 1..Len(direct) : direct[i].reachable
                   \/ AnyPutOk))

C7_Witness ==
    /\ SetReturned /\ linked.configured
    /\ Truthy(spre, "reachable")
    /\ Len(puts) >= 1 /\ ~AnyPutOk
    /\ ~Truthy(pstate, "reachable")

\* C8: every set_light call, also one on a light without linked_lights, makes
\* the parent unreachable first: from the call on, until a PUT succeeds, the
\* parent is unreachable, so no stale reachable = true outlives a call in
\* which nothing succeeded.
C8_EveryCallResetsReachable ==
    (sres \in {"running", "returned"} /\ ~AnyPutOk)
        => ~Truthy(pstate, "reachable")

\* C9: a second get_light_state right after a first one, the endpoints
\* answering (or failing) the same way, gives the same result and leaves
\* every child's state as the first call left it.
C9_ResolveIsIdempotent ==
    (gres.kind # "none" /\ prev.valid /\ gets = prev.gets)
        => (gres = prev.res /\ cstate = cpre)

C9_Witness ==
    /\ GetReturned /\ prev.valid /\ gets = prev.gets
    /\ Len(gets) = 2 /\ gets[1].ok /\ ~gets[2].ok
    /\ gres.state = prev.res.state

\* C10: get_light_state never lets an exception reach its caller, whatever
\* the endpoints answer, a non-integer bri included.
C10_ResolveNeverRaises == gres.kind # "raise"

\* The resolved children hosted at address a.
ChildrenAt(a) == {c \in ListedChildren : HasEndpoint(c) /\ cfg[c].ip = a}

\* C11: when set_light returns, every child hosted at an address whose PUT
\* succeeded is reachable, so that with at least one resolved child the
\* parent's reachable is the OR of the children's reachable.
C11_WrittenChildrenAreReachable ==
    SetReturned =>
        /\ \A i \in 1..Len(puts) :
             puts[i].ok => \A c \in ChildrenAt(puts[i].ip) :
                              Truthy(cstate[c], "reachable")
        /\ (linked.configured /\ ListedChildren # {})
             => (Truthy(pstate, "reachable")
                   <=> \E c \in ListedChildren : Truthy(cstate[c], "reachable"))

\* C12: set_light invokes the direct state-setter of every resolved child
\* that is not hosted on a device (no address or no channel index) exactly
\* once, with the full data and advertise = false.
DirectCalls(c) == {i \in 1..Len(direct) : direct[i].id = c}

C12_UnhostedChildrenGetTheCommand ==
    (SetReturned /\ linked.configured)
        => \A c \in ListedChildren :
             ~HasEndpoint(c)
               => /\ Cardinality(DirectCalls(c)) = 1
                  /\ \A i \in DirectCalls(c) :
                       direct[i].data = sdata /\ ~direct[i].advertise

\* C13: an identifier of linked_lights that the registry lacks is skipped:
\* the children listed before and after it are batched, queried and
\* aggregated as if it were not listed, and it counts neither in the
\* brightness denominator nor in the on / reachable OR.
ChannelsAt(a) == {Str(cfg[c].light_nr) : c \in ChildrenAt(a)}

C13_MissingIdIsSkipped ==
    IsListed(linked, Ghost) =>
        /\ SetReturned =>
             /\ \A a \in Addrs : Count(puts, a) = IF a \in BatchAddrs THEN 1 ELSE 0
             /\ \A i \in 1..Len(puts) : DOMAIN puts[i].lights = ChannelsAt(puts[i].ip)
        /\ gres.kind # "none" =>
             \A a \in Addrs : Count(gets, a) = IF a \in BatchAddrs THEN 1 ELSE 0
        /\ (GetReturned /\ ListedChildren # {}) =>
             /\ pstate.on = (\E c \in ListedChildren : Truthy(cstate[c], "on"))
             /\ pstate.reachable =
                  (\E c \in ListedChildren : Truthy(cstate[c], "reachable"))
             /\ pstate.bri = SumBriOf(WithBri) \div Cardinality(ListedChildren)
        /\ (GetReturned /\ ListedChildren = {}) => pstate = gpre

C13_Witness ==
    /\ GetReturned
    /\ linked = Linked(<<"c1", Ghost, "c3">>)
    /\ Len(gets) = 2 /\ gets[1].ok /\ gets[2].ok
    /\ WithBri = {"c1", "c3"}
    /\ pstate.bri = 127

\* What the device of child c serves for c's channel ({} when it serves
\* nothing for it), and whether the read of address a failed: the request
\* failed, or an entry of one of its channels is malformed.
EntryOf(c) == SubDict(device[cfg[c].ip], cfg[c].light_nr)

ReadFailed(a) ==
    \E i \in 1..Len(gets) :
        /\ gets[i].ip = a
        /\ \/ ~gets[i].ok
           \/ \E c \in ChildrenAt(a) : IsMalformed(EntryOf(c))

ReadSucceeded(a) ==
    \E i \in 1..Len(gets) :
        /\ gets[i].ip = a /\ gets[i].ok
        /\ \A c \in ChildrenAt(a) : ~IsMalformed(EntryOf(c))

\* C14: when the read of an address fails (also by a body of which only some
\* entries are malformed), every child of that address ends unreachable with
\* every other field as before the call, and the children of the other
\* addresses are updated from their own responses.
C14_FailedReadOnlyMarksUnreachable ==
    gres.kind # "none" =>
        \A a \in BatchAddrs :
            /\ ReadFailed(a) =>
                 \A c \in ChildrenAt(a) : cstate[c] = Put(cpre[c], "reachable", FALSE)
            /\ ReadSucceeded(a) =>
                 \A c \in ChildrenAt(a) : cstate[c] = UpdateChild(cpre[c], EntryOf(c))

\* C15: when at least one child is resolved and none of them has a bri, the
\* aggregated bri is 1.
C15_NoBriDefaultsToOne ==
    (GetReturned /\ ListedChildren # {} /\ WithBri = {}) => pstate.bri = 1

\* C16: with at least one resolved child, the aggregated on is the OR of the
\* children's on after the reads (a child without on counts as off),
\* whatever the children's reachable and the order of linked_lights.
C16_OnIsOrOfChildren ==
    (GetReturned /\ ListedChildren # {})
        => (pstate.on = \E c \in ListedChildren : Truthy(cstate[c], "on"))

C16_Witness ==
    /\ GetReturned
    /\ pstate.on = TRUE
    /\ \E c \in ListedChildren : "on" \notin DOMAIN cstate[c]
    /\ \A c \in ListedChildren :
         Truthy(cstate[c], "on") => ~Truthy(cstate[c], "reachable")

\* C17: after a successful read of an address every child of it has the
\* response's value for each recognised field its entry holds, reachable
\* TRUE when the entry omits it (or is absent), and every other field,
\* unrecognised ones included, present and valued as before the call.
C17_SuccessfulReadCopiesRecognisedFields ==
    gres.kind # "none" =>
        \A a \in BatchAddrs : ReadSucceeded(a) =>
            \A c \in ChildrenAt(a) :
                LET e == EntryOf(c)
                    copied == DOMAIN e \cap ReadKeys
                    kept == (DOMAIN cstate[c] \cup DOMAIN cpre[c] \cup DOMAIN e)
                                \ (copied \cup {"reachable"})
                IN  /\ \A k \in copied :
                         k \in DOMAIN cstate[c] /\ cstate[c][k] = e[k]
                    /\ "reachable" \notin DOMAIN e => Truthy(cstate[c], "reachable")
                    /\ "reachable" \in DOMAIN cstate[c]
                    /\ \A k \in kept :
                         /\ k \in DOMAIN cstate[c] <=> k \in DOMAIN cpre[c]
                         /\ k \in DOMAIN cpre[c] => cstate[c][k] = cpre[c][k]

C17_Witness ==
    /\ GetReturned
    /\ \E c \in ListedChildren :
         /\ HasEndpoint(c) /\ ReadSucceeded(cfg[c].ip)
         /\ "effect" \in DOMAIN EntryOf(c) /\ EntryOf(c).effect = 1
         /\ "hue" \notin DOMAIN EntryOf(c)
         /\ {"bri", "effect", "hue"} \subseteq DOMAIN cpre[c]
         /\ cpre[c].bri = 200 /\ cstate[c].bri = 55
         /\ cstate[c].effect = 0 /\ cstate[c].hue = 1
         /\ cstate[c].reachable = TRUE

\* A step of set_light: the call itself or one of its later steps.
SetStep == sres' # "none" /\ (ncalls' # ncalls \/ spc # "idle")

\* The fields of the delta an entry of a PUT body may carry.
Forwarded == {"on", "bri", "hue", "sat", "xy", "ct", "colormode"}

BodyIsTheFilteredDelta ==
    /\ \A i \in 1..Len(puts) :
         /\ DOMAIN puts[i].lights = ChannelsAt(puts[i].ip)
         /\ \A ch \in DOMAIN puts[i].lights :
              /\ DOMAIN puts[i].lights[ch] = DOMAIN sdata \cap Forwarded
              /\ \A k \in DOMAIN puts[i].lights[ch] : puts[i].lights[ch][k] = sdata[k]
    /\ (SetReturned /\ linked.configured)
         => \A a \in BatchAddrs : Count(puts, a) = 1

\* C18: the body written to an address has exactly one entry per channel of
\* the resolved children hosted there, each entry is the delta restricted to
\* on, bri, hue, sat, xy, ct, colormode with the delta's values, and no step
\* of set_light changes a child's cached state.
C18_BodyIsFilteredDeltaChildrenUntouched ==
    /\ []BodyIsTheFilteredDelta
    /\ [][SetStep => cstate' = cstate]_vars

C18_Witness ==
    /\ SetReturned
    /\ "transitiontime" \in DOMAIN sdata
    /\ \E i \in 1..Len(puts) :
         /\ puts[i].ok
         /\ DOMAIN puts[i].lights = {"1", "2"}
         /\ \A ch \in {"1", "2"} : puts[i].lights[ch] = [hue |-> 5]
    /\ \E c \in ListedChildren : cstate[c] # EmptyDict

\* The fields of the parent a call may write.
Aggregated == {"on", "bri", "reachable"}

SameField(k) ==
    /\ k \in DOMAIN pstate <=> k \in DOMAIN pstate'
    /\ k \in DOMAIN pstate => pstate'[k] = pstate[k]

\* C20: no step changes a field of the parent's state other than on, bri
\* and reachable, and a step of set_light changes none but reachable.
C20_OnlyOnBriReachableWritten ==
    [][/\ \A k \in (DOMAIN pstate \cup DOMAIN pstate') \ Aggregated : SameField(k)
       /\ SetStep => SameField("on") /\ SameField("bri")]_vars

C20_Witness ==
    /\ GetReturned
    /\ puts # <<>> /\ "hue" \in DOMAIN sdata /\ sdata.hue = 5
    /\ "hue" \in DOMAIN pstate /\ pstate.hue = 9
    /\ pstate.bri # gpre.bri /\ pstate.on # gpre.on
    /\ \E c \in ListedChildren : "hue" \in DOMAIN cstate[c] /\ cstate[c].hue = 2

\* Both concurrent calls have completed (the get by a return or by raising).
BothCompleted == sres = "returned" /\ gpc = "idle" /\ gres.kind # "none"

\* C19: under every interleaving of one set_light and one get_light_state on
\* a light with linked_lights and at least one resolved child, once both
\* have completed the parent is reachable only if a PUT of the set_light
\* succeeded or a resolved child is reachable.
C19_ReachableIsJustified ==
    (BothCompleted /\ linked.configured /\ ListedChildren # {})
        => (Truthy(pstate, "reachable")
              => \/ AnyPutOk
                 \/ \E c \in ListedChildren : Truthy(cstate[c], "reachable"))

\* The get began after the set had reset reachable and returned unreachable
\* before a PUT of the set succeeded.
C19_Witness ==
    /\ BothCompleted /\ linked.configured /\ ListedChildren # {}
    /\ Truthy(spre, "reachable") /\ ~Truthy(gpre, "reachable")
    /\ gres.kind = "state" /\ ~Truthy(gres.state, "reachable")
    /\ \A c \in ListedChildren : ~Truthy(cstate[c], "reachable")
    /\ AnyPutOk
    /\ Truthy(pstate, "reachable")

====
